---- MODULE Spec2Model ----
(***************************************************************************)
(* House price prediction page: the Remote Prediction Client               *)
(* (src/src/utils/prediction.ts), the Local Heuristic Estimator            *)
(* (predictPrice) and the page that orchestrates them (Index /             *)
(* handleFormSubmit, HouseForm).                                           *)
(*                                                                         *)
(* Numbers are exact rationals kept as integers: bathrooms are counted in  *)
(* halves, lotSize in hundredths of an acre, factors in hundredths.        *)
(***************************************************************************)
EXTENDS Integers, Sequences, FiniteSets, TLC

VARIABLES
    predictedPrice,          \* Index: useState<number | null>(null)
    isLoading,               \* Index: useState(false)
    modelStatus,             \* Index: {isAvailable, isLoading, error}
    statusCall,              \* the mount effect's checkModelStatus() call
    isLoadingNeighborhoods,  \* HouseForm: useState(true)
    subs,                    \* the handleFormSubmit invocations, in start order
    hcall,                   \* a direct call of an exported client operation
    est                      \* direct calls of predictPrice on one record

vars == <<predictedPrice, isLoading, modelStatus, statusCall,
          isLoadingNeighborhoods, subs, hcall, est>>

pageVars == <<predictedPrice, isLoading, modelStatus, statusCall,
              isLoadingNeighborhoods, subs>>

-----------------------------------------------------------------------------
(* Bounds of the model *)

MaxSubmissions == 2
MaxEstimateCalls == 2
MaxClientCalls == 3
HalfRandomSteps == 2

-----------------------------------------------------------------------------
(* JavaScript values *)

Undefined == [t |-> "undefined"]
Null == [t |-> "null"]
NaN == [t |-> "NaN"]
Func == [t |-> "function"]
Bool(b) == [t |-> "boolean", b |-> b]
Num(n) == [t |-> "number", n |-> n]
Str(s) == [t |-> "string", s |-> s]
Obj(fields) == [t |-> "object", f |-> fields]

EmptyObject == Obj([k \in {} |-> Undefined])

\* ToBoolean
IsTruthy(v) ==
    CASE v.t = "undefined" -> FALSE
      [] v.t = "null" -> FALSE
      [] v.t = "NaN" -> FALSE
      [] v.t = "boolean" -> v.b
      [] v.t = "number" -> v.n # 0
      [] v.t = "string" -> v.s # ""
      [] OTHER -> TRUE

Return(v) == [kind |-> "return", value |-> v]
Throw(e) == [kind |-> "throw", value |-> e]
Await(pc) == [kind |-> "await", value |-> pc]
NoCompletion == [kind |-> "none"]

\* v.name : reading a property of null or undefined throws a TypeError
GetProp(v, name) ==
    IF v.t \in {"null", "undefined"} THEN Throw("TypeError")
    ELSE IF v.t = "object" /\ name \in DOMAIN v.f THEN Return(v.f[name])
    ELSE Return(Undefined)

-----------------------------------------------------------------------------
(* What the network can do to one request *)

FetchRejected == [rejected |-> TRUE, status |-> 0]
Response(status) == [rejected |-> FALSE, status |-> status]

HttpStatuses == {200, 201, 404, 500}
FetchOutcomes == {FetchRejected} \cup {Response(s) : s \in HttpStatuses}

\* Response.ok
ResponseOk(f) == ~f.rejected /\ f.status >= 200 /\ f.status <= 299

NotJson == [parses |-> FALSE, json |-> Undefined]
Json(v) == [parses |-> TRUE, json |-> v]
\* A body nobody read
Unread == [parses |-> FALSE, json |-> Undefined, unread |-> TRUE]

StatusBodies ==
    { NotJson,
      Json(Null),
      Json(EmptyObject),
      Json(Obj([trained |-> Bool(TRUE), modelPath |-> Str("model.pkl")])),
      Json(Obj([trained |-> Bool(FALSE), modelPath |-> Null])) }

\* Bodies of a successful answer to POST /api/predict
PredictBodies ==
    { NotJson,
      Json(Null),
      Json(EmptyObject),
      Json(Obj([prediction |-> Num(250000)])),
      Json(Obj([prediction |-> Str("250000")])) }

\* Bodies of an answer to POST /api/predict outside the success range
ErrorBodies ==
    { NotJson,
      Json(Null),
      Json(Obj([error |-> Str("Model not trained")])),
      Json(Obj([message |-> Str("Internal error")])) }

-----------------------------------------------------------------------------
(* Remote Prediction Client *)

Ops == {"checkModelStatus", "predictPriceFromAPI", "checkAPIHealth"}

\* The request each operation hands to fetch
RequestOf(op) ==
    CASE op = "checkModelStatus" -> [method |-> "GET", path |-> "/api/model/status"]
      [] op = "predictPriceFromAPI" -> [method |-> "POST", path |-> "/api/predict"]
      [] op = "checkAPIHealth" -> [method |-> "GET", path |-> "/api/model/status"]

\* Mutant: a failed request is sent a second time
RequestsOf_Resend(op) == <<RequestOf(op), RequestOf(op)>>

\* The requests an operation issues in one call: its single fetch
RequestsOf(op) == <<RequestOf(op)>>

\* return { trained: false, modelPath: null }
StatusUnavailable == Obj([trained |-> Bool(FALSE), modelPath |-> Null])

\* Mutant: the !response.ok test is missing
checkModelStatus_afterFetch_NoOkTest(f) ==
    IF f.rejected THEN Throw("TypeError") ELSE Await("json")

\* checkModelStatus, try block up to the first suspension after fetch
checkModelStatus_afterFetch(f) ==
    IF f.rejected THEN Throw("TypeError")
    ELSE IF ~ResponseOk(f) THEN Throw("Error")
    ELSE Await("json")

\* checkModelStatus, return await response.json()
checkModelStatus_afterJson(b) ==
    IF ~b.parses THEN Throw("SyntaxError") ELSE Return(b.json)

\* catch (error) { console.error(...); return {trained: false, modelPath: null} }
checkModelStatus_catch(c) ==
    IF c.kind = "throw" THEN Return(StatusUnavailable) ELSE c

\* Mutant: the !response.ok test is missing
predictPriceFromAPI_afterFetch_NoOkTest(f) ==
    IF f.rejected THEN Throw("TypeError") ELSE Await("json")

\* predictPriceFromAPI, try block up to the first suspension after fetch
predictPriceFromAPI_afterFetch(f) ==
    IF f.rejected THEN Throw("TypeError")
    ELSE IF ~ResponseOk(f) THEN Await("errjson")
    ELSE Await("json")

\* predictPriceFromAPI, the !response.ok branch once the error body is read
predictPriceFromAPI_afterErrJson(b) ==
    LET errorData == IF b.parses THEN b.json ELSE EmptyObject
        msg == GetProp(errorData, "error")
    IN  IF msg.kind = "throw" THEN msg ELSE Throw("Error")

\* predictPriceFromAPI, success branch: result.prediction
predictPriceFromAPI_afterJson(b) ==
    IF ~b.parses THEN Throw("SyntaxError") ELSE GetProp(b.json, "prediction")

\* Mutant: the catch block rethrows
predictPriceFromAPI_catch_Rethrow(c) == c

\* catch (error) { console.error(...); return null }
predictPriceFromAPI_catch(c) ==
    IF c.kind = "throw" THEN Return(Null) ELSE c

\* checkAPIHealth, try block
checkAPIHealth_afterFetch(f) ==
    IF f.rejected THEN Throw("TypeError") ELSE Return(Bool(ResponseOk(f)))

\* catch (error) { console.error(...); return false }
checkAPIHealth_catch(c) ==
    IF c.kind = "throw" THEN Return(Bool(FALSE)) ELSE c

Catch(op, c) ==
    CASE op = "checkModelStatus" -> checkModelStatus_catch(c)
      [] op = "predictPriceFromAPI" -> predictPriceFromAPI_catch(c)
      [] op = "checkAPIHealth" -> checkAPIHealth_catch(c)

AfterFetch(op, f) ==
    CASE op = "checkModelStatus" -> checkModelStatus_afterFetch(f)
      [] op = "predictPriceFromAPI" -> predictPriceFromAPI_afterFetch(f)
      [] op = "checkAPIHealth" -> checkAPIHealth_afterFetch(f)

AfterBody(op, pc, b) ==
    CASE op = "checkModelStatus" -> checkModelStatus_afterJson(b)
      [] op = "predictPriceFromAPI" /\ pc = "json" -> predictPriceFromAPI_afterJson(b)
      [] op = "predictPriceFromAPI" /\ pc = "errjson" -> predictPriceFromAPI_afterErrJson(b)

BodiesOf(op, pc) ==
    IF op = "checkModelStatus" THEN StatusBodies
    ELSE IF pc = "errjson" THEN ErrorBodies
    ELSE PredictBodies

\* One call of a client operation: where it is suspended, the requests it has
\* issued and how it completed.
NoCall == [op |-> "none", pc |-> "idle", requests |-> <<>>, completion |-> NoCompletion]

StartCall(op) ==
    [op |-> op, pc |-> "fetch", requests |-> RequestsOf(op), completion |-> NoCompletion]

Advance(call, r) ==
    IF r.kind = "await" THEN [call EXCEPT !.pc = r.value]
    ELSE [call EXCEPT !.pc = "done", !.completion = r]

FetchSettled(call, f) == Advance(call, Catch(call.op, AfterFetch(call.op, f)))

BodySettled(call, b) == Advance(call, Catch(call.op, AfterBody(call.op, call.pc, b)))

-----------------------------------------------------------------------------
(* Direct callers of the exported client operations.  hcall keeps the call, *)
(* what the network answered it, and how many calls and requests were made. *)

NoClientCall ==
    [call |-> NoCall, response |-> FetchRejected, body |-> Unread, calls |-> 0, sent |-> 0]

ClientCall(op) ==
    /\ hcall.call.pc \in {"idle", "done"}
    /\ hcall.calls < MaxClientCalls
    /\ hcall' = [call |-> StartCall(op), response |-> FetchRejected, body |-> Unread,
                 calls |-> hcall.calls + 1,
                 sent |-> hcall.sent + Len(StartCall(op).requests)]
    /\ UNCHANGED <<pageVars, est>>

ClientFetchSettles(f) ==
    /\ hcall.call.pc = "fetch"
    /\ hcall' = [hcall EXCEPT !.call = FetchSettled(hcall.call, f), !.response = f]
    /\ UNCHANGED <<pageVars, est>>

ClientBodySettles(b) ==
    /\ hcall.call.pc \in {"json", "errjson"}
    /\ hcall' = [hcall EXCEPT !.call = BodySettled(hcall.call, b), !.body = b]
    /\ UNCHANGED <<pageVars, est>>

ClientNext ==
    \/ \E op \in Ops : ClientCall(op)
    \/ \E f \in FetchOutcomes : ClientFetchSettles(f)
    \/ \E b \in BodiesOf(hcall.call.op, hcall.call.pc) : ClientBodySettles(b)

\* A direct caller that only ever checks the API's health
HealthNext ==
    \/ ClientCall("checkAPIHealth")
    \/ \E f \in FetchOutcomes : ClientFetchSettles(f)

-----------------------------------------------------------------------------
(* Local Heuristic Estimator: predictPrice *)

BASE_PRICE == 150000
PRICE_PER_SQFT == 100
BEDROOM_VALUE == 15000
BATHROOM_VALUE == 20000
YEAR_MULTIPLIER == 500
BASE_YEAR == 1950
LOT_SIZE_VALUE == 100000
GARAGE_VALUE == 10000
BASEMENT_VALUE == 20000
CENTRAL_AIR_VALUE == 15000
KITCHEN_QUALITY_MULTIPLIER == 10000

\* The object literal's own properties, in hundredths (1.2 is 120)
neighborhoodFactors ==
    [n \in {"Downtown", "Suburban Heights", "Riverside", "West End", "North Hills",
            "Oak Park", "Maplewood", "Cedar Ridge", "Brookside", "Highland Park"} |->
        CASE n = "Downtown" -> 120
          [] n = "Suburban Heights" -> 110
          [] n = "Riverside" -> 115
          [] n = "West End" -> 95
          [] n = "North Hills" -> 105
          [] n = "Oak Park" -> 100
          [] n = "Maplewood" -> 90
          [] n = "Cedar Ridge" -> 110
          [] n = "Brookside" -> 105
          [] n = "Highland Park" -> 120]

\* Property names every object literal inherits from Object.prototype
ObjectPrototypeKeys == {"constructor", "toString", "valueOf", "hasOwnProperty"}

\* neighborhoodFactors[key]: an own property, else an inherited one, else undefined
neighborhoodFactors_get(key) ==
    IF key \in DOMAIN neighborhoodFactors THEN Num(neighborhoodFactors[key])
    ELSE IF key \in ObjectPrototypeKeys THEN Func
    ELSE Undefined

\* neighborhoodFactors[data.neighborhood] || 1.0
neighborhoodFactor(data) ==
    LET v == neighborhoodFactors_get(data.neighborhood)
    IN  IF IsTruthy(v) THEN v ELSE Num(100)

\* bathrooms are counted in halves, lotSize in hundredths of an acre
sqftValue(data) == data.squareFootage * PRICE_PER_SQFT
bedroomValue(data) == data.bedrooms * BEDROOM_VALUE
bathroomValue(data) == (data.bathrooms * BATHROOM_VALUE) \div 2
yearValue(data) == (data.yearBuilt - BASE_YEAR) * YEAR_MULTIPLIER
lotSizeValue(data) == (data.lotSize * LOT_SIZE_VALUE) \div 100
garageValue(data) == data.garage * GARAGE_VALUE
basementValue(data) == IF data.basement THEN BASEMENT_VALUE ELSE 0
centralAirValue(data) == IF data.centralAir THEN CENTRAL_AIR_VALUE ELSE 0
kitchenQualityValue(data) == (data.kitchenQuality - 1) * KITCHEN_QUALITY_MULTIPLIER

\* let predictedPrice = BASE_PRICE + ... (before the factors)
Subtotal(data) ==
    BASE_PRICE + sqftValue(data) + bedroomValue(data) + bathroomValue(data) +
    yearValue(data) + lotSizeValue(data) + garageValue(data) +
    basementValue(data) + centralAirValue(data) + kitchenQualityValue(data)

\* Math.random() returns k / RandomResolution, a value of [0, 1)
RandomResolution == 2 * HalfRandomSteps
RandomDraws == 0 .. (RandomResolution - 1)

\* 0.95 + Math.random() * 0.1, as the fraction num / den
marketVariation(k) == [num |-> 95 * RandomResolution + 10 * k, den |-> 100 * RandomResolution]

\* Math.round(num / den): the nearest integer, halves towards +Infinity
MathRound(num, den) == (2 * num + den) \div (2 * den)

\* Math.round(x * num / den), for an integer x. x is split as q * den + r so that
\* no intermediate product leaves the checker's 32-bit integers.
MathRoundScaled(x, num, den) ==
    (x \div den) * num + MathRound((x % den) * num, den)

\* predictPrice(data), with Math.random() returning k / RandomResolution
predictPrice(data, k) ==
    LET factor == neighborhoodFactor(data)
        mv == marketVariation(k)
    IN  IF factor.t # "number" THEN NaN
        ELSE Num(MathRoundScaled(Subtotal(data) * factor.n, mv.num, 100 * mv.den))

\* HouseData as the form can submit it
HouseRecords ==
    [squareFootage : {500, 1555, 2000}, bedrooms : {1, 3}, bathrooms : {2, 4},
     yearBuilt : {1900, 2000},
     neighborhood : {"Downtown", "Riverside", "West End", "Oak Park", "Maplewood",
                     "Elm Street", "constructor"},
     lotSize : {10, 50}, garage : {0, 2}, basement : BOOLEAN, centralAir : BOOLEAN,
     kitchenQuality : {1, 3}]

\* The specification's example record
ExampleRecord ==
    [squareFootage |-> 2000, bedrooms |-> 3, bathrooms |-> 4, yearBuilt |-> 2000,
     neighborhood |-> "Oak Park", lotSize |-> 50, garage |-> 2, basement |-> TRUE,
     centralAir |-> TRUE, kitchenQuality |-> 3]

NoEstimate == [data |-> ExampleRecord, calls |-> <<>>]

\* One more call of predictPrice on the record
Estimate(k) ==
    /\ Len(est.calls) < MaxEstimateCalls
    /\ est' = [est EXCEPT !.calls = Append(@, [k |-> k, value |-> predictPrice(est.data, k)])]
    /\ UNCHANGED <<pageVars, hcall>>

EstimateNext == \E k \in RandomDraws : Estimate(k)

-----------------------------------------------------------------------------
(* Index page: the mount effect *)

\* checkBackendStatus once checkModelStatus() has completed: the new modelStatus
checkBackendStatus_after(c) ==
    LET failed == [isAvailable |-> Bool(FALSE), isLoading |-> FALSE,
                   error |-> Str("Failed to connect to backend")]
        trained == IF c.kind = "return" THEN GetProp(c.value, "trained") ELSE c
    IN  IF trained.kind = "throw" THEN failed
        ELSE [isAvailable |-> trained.value, isLoading |-> FALSE, error |-> Null]

\* The status call moved to `call`; on completion the effect's continuation runs
StatusCallAdvances(call) ==
    /\ statusCall' = call
    /\ modelStatus' = IF call.pc = "done" THEN checkBackendStatus_after(call.completion)
                      ELSE modelStatus
    /\ UNCHANGED <<predictedPrice, isLoading, isLoadingNeighborhoods, subs, hcall, est>>

StatusFetchSettles(f) ==
    /\ statusCall.pc = "fetch"
    /\ StatusCallAdvances(FetchSettled(statusCall, f))

StatusBodySettles(b) ==
    /\ statusCall.pc = "json"
    /\ StatusCallAdvances(BodySettled(statusCall, b))

\* Mutant: the effect has no dependency array and runs again on a render
StatusCallOnRender_NoDeps(call) ==
    [StartCall("checkModelStatus") EXCEPT
        !.requests = call.requests \o RequestsOf("checkModelStatus")]

\* useEffect(() => { checkBackendStatus() }, []): the effect runs on mount
\* only, so a later render of Index leaves the status call as it is
StatusCallOnRender(call) == call

(* HouseForm: the neighborhoods effect ends (its finally block) *)
NeighborhoodsSettle ==
    /\ isLoadingNeighborhoods
    /\ isLoadingNeighborhoods' = FALSE
    /\ UNCHANGED <<predictedPrice, isLoading, modelStatus, statusCall, subs, hcall, est>>

-----------------------------------------------------------------------------
(* Index page: handleFormSubmit *)

\* The records the form submits in this model
SubmitRecords ==
    { ExampleRecord,
      [ExampleRecord EXCEPT !.neighborhood = "Downtown", !.squareFootage = 1555] }

\* The values Math.random() takes in the page's submissions: 0 and 1/2
SubmitDraws == {0, HalfRandomSteps}

\* Mutant: the button is not disabled while a prediction is loading
SubmitEnabled_IgnoresLoading == ~isLoadingNeighborhoods

\* HouseForm's submit button: disabled={isLoading || isLoadingNeighborhoods}
SubmitEnabled == ~(isLoading \/ isLoadingNeighborhoods)

\* Mutant: only a pending status (null) keeps the API from being tried
ShouldTryAPI_NotNull(ms) == ms.isAvailable # Null

\* if (modelStatus.isAvailable)
ShouldTryAPI(ms) == IsTruthy(ms.isAvailable)

\* if (price === null)
NeedsFallback(price) == price = Null

\* try { price = await predictPriceFromAPI(data); source = 'API' } catch { }
AfterRemote(c) ==
    IF c.kind = "return" THEN [price |-> c.value, source |-> "API"]
    ELSE [price |-> Null, source |-> ""]

NewSubmission(data) ==
    [data |-> data, pc |-> "start", available |-> modelStatus.isAvailable,
     call |-> NoCall, localCalls |-> 0, local |-> Undefined,
     price |-> Null, source |-> "", completed |-> 0]

\* How many invocations of handleFormSubmit have reached their end
CompletedCount == Cardinality({i \in DOMAIN subs : subs[i].pc = "done"})

\* From the fallback test to the end of handleFormSubmit, with
\* Math.random() returning k / RandomResolution
Finished(sub, ps, k) ==
    IF NeedsFallback(ps.price)
    THEN [sub EXCEPT !.pc = "done", !.localCalls = @ + 1,
                     !.local = predictPrice(sub.data, k),
                     !.price = predictPrice(sub.data, k), !.source = "fallback",
                     !.completed = CompletedCount + 1]
    ELSE [sub EXCEPT !.pc = "done", !.price = ps.price, !.source = ps.source,
                     !.completed = CompletedCount + 1]

\* A submission while the remote model is not known to be available:
\* handleFormSubmit runs to its end without suspending
SubmitLocal(data, k) ==
    /\ SubmitEnabled
    /\ Len(subs) < MaxSubmissions
    /\ ~ShouldTryAPI(modelStatus)
    /\ LET sub == Finished(NewSubmission(data), [price |-> Null, source |-> ""], k)
       IN  /\ subs' = Append(subs, sub)
           /\ predictedPrice' = sub.price
           /\ isLoading' = FALSE
    /\ statusCall' = StatusCallOnRender(statusCall)
    /\ UNCHANGED <<modelStatus, isLoadingNeighborhoods, hcall, est>>

\* A submission that tries the API: handleFormSubmit up to the await
SubmitRemote(data) ==
    /\ SubmitEnabled
    /\ Len(subs) < MaxSubmissions
    /\ ShouldTryAPI(modelStatus)
    /\ subs' = Append(subs, [NewSubmission(data) EXCEPT
                                !.pc = "remote", !.call = StartCall("predictPriceFromAPI")])
    /\ isLoading' = TRUE
    /\ predictedPrice' = Null
    /\ statusCall' = StatusCallOnRender(statusCall)
    /\ UNCHANGED <<modelStatus, isLoadingNeighborhoods, hcall, est>>

\* Submission i's predictPriceFromAPI call moved to `call`; once it has
\* completed, handleFormSubmit resumes and runs to its end
RemoteCallAdvances(i, call, k) ==
    /\ IF call.pc = "done"
       THEN LET sub == Finished([subs[i] EXCEPT !.call = call],
                                AfterRemote(call.completion), k)
            IN  /\ subs' = [subs EXCEPT ![i] = sub]
                /\ predictedPrice' = sub.price
                /\ isLoading' = FALSE
       ELSE /\ subs' = [subs EXCEPT ![i].call = call]
            /\ UNCHANGED <<predictedPrice, isLoading>>
    /\ statusCall' = StatusCallOnRender(statusCall)
    /\ UNCHANGED <<modelStatus, isLoadingNeighborhoods, hcall, est>>

PredictFetchSettles(i, f, k) ==
    /\ subs[i].pc = "remote"
    /\ subs[i].call.pc = "fetch"
    /\ RemoteCallAdvances(i, FetchSettled(subs[i].call, f), k)

PredictBodySettles(i, b, k) ==
    /\ subs[i].pc = "remote"
    /\ subs[i].call.pc \in {"json", "errjson"}
    /\ RemoteCallAdvances(i, BodySettled(subs[i].call, b), k)

Next ==
    \/ \E f \in FetchOutcomes : StatusFetchSettles(f)
    \/ \E b \in StatusBodies : StatusBodySettles(b)
    \/ NeighborhoodsSettle
    \/ \E d \in SubmitRecords, k \in SubmitDraws : SubmitLocal(d, k)
    \/ \E d \in SubmitRecords : SubmitRemote(d)
    \/ \E i \in DOMAIN subs, f \in FetchOutcomes, k \in SubmitDraws :
          PredictFetchSettles(i, f, k)
    \/ \E i \in DOMAIN subs, k \in SubmitDraws :
          \E b \in BodiesOf("predictPriceFromAPI", subs[i].call.pc) :
             PredictBodySettles(i, b, k)

-----------------------------------------------------------------------------

Init ==
    /\ predictedPrice = Null
    /\ isLoading = FALSE
    /\ modelStatus = [isAvailable |-> Null, isLoading |-> TRUE, error |-> Null]
    /\ statusCall = StartCall("checkModelStatus")
    /\ isLoadingNeighborhoods = TRUE
    /\ subs = <<>>
    /\ hcall = NoClientCall
    /\ est = NoEstimate

Spec == Init /\ [][Next]_vars

ClientSpec == Init /\ [][ClientNext]_vars

\* The page together with a direct caller of checkAPIHealth
AppSpec == Init /\ [][Next \/ HealthNext]_vars

EstimateInit ==
    /\ predictedPrice = Null
    /\ isLoading = FALSE
    /\ modelStatus = [isAvailable |-> Null, isLoading |-> TRUE, error |-> Null]
    /\ statusCall = StartCall("checkModelStatus")
    /\ isLoadingNeighborhoods = TRUE
    /\ subs = <<>>
    /\ hcall = NoClientCall
    /\ est \in {[data |-> d, calls |-> <<>>] : d \in HouseRecords}

EstimateSpec == EstimateInit /\ [][EstimateNext]_vars

-----------------------------------------------------------------------------
(* Properties of handleFormSubmit (specification Spec) *)

Done(sub) == sub.pc = "done"

\* The POSTs to /api/predict a submission has issued
Posts(sub) ==
    Cardinality({n \in DOMAIN sub.call.requests :
                    sub.call.requests[n] = [method |-> "POST", path |-> "/api/predict"]})

\* The remote call of the submission returned a non-null number
RemoteGaveNumber(sub) ==
    /\ sub.call.completion.kind = "return"
    /\ sub.call.completion.value.t = "number"

\* C1: every finished submission made with a trained status whose remote call
\* returned a non-null number displays exactly that number, tagged 'API'; every
\* other finished submission displays the value of predictPrice, tagged
\* 'fallback'.
C1_ResultAndSource ==
    \A i \in DOMAIN subs :
        Done(subs[i]) =>
            IF IsTruthy(subs[i].available) /\ RemoteGaveNumber(subs[i])
            THEN /\ subs[i].price = subs[i].call.completion.value
                 /\ subs[i].source = "API"
            ELSE /\ subs[i].localCalls = 1
                 /\ subs[i].price = subs[i].local
                 /\ subs[i].source = "fallback"

\* C2: whatever the remote service answered, a finished submission displays a
\* numeric price, and it is the local estimate whenever the remote call did not
\* produce a number.
C2_AlwaysNumericPrice ==
    \A i \in DOMAIN subs :
        Done(subs[i]) =>
            /\ subs[i].price.t = "number"
            /\ ~RemoteGaveNumber(subs[i]) =>
                   /\ subs[i].source = "fallback"
                   /\ subs[i].price = subs[i].local

\* C3: a submission made while the status says trained = false never calls
\* predictPriceFromAPI (no POST to /api/predict); a submission made while
\* trained = true whose remote call returned null calls predictPrice and
\* displays its value.
C3_NoRemoteWhenUntrained ==
    \A i \in DOMAIN subs :
        /\ subs[i].available = Bool(FALSE) =>
               /\ subs[i].call.op = "none"
               /\ Posts(subs[i]) = 0
        /\ ( /\ Done(subs[i])
             /\ subs[i].available = Bool(TRUE)
             /\ subs[i].call.completion = Return(Null) ) =>
               /\ subs[i].localCalls = 1
               /\ subs[i].local.t = "number"
               /\ subs[i].price = subs[i].local

C3_Witness ==
    \E i \in DOMAIN subs :
        /\ Done(subs[i])
        /\ subs[i].available = Bool(TRUE)
        /\ subs[i].call.completion = Return(Null)
        /\ subs[i].localCalls = 1
        /\ predictedPrice = subs[i].local

-----------------------------------------------------------------------------
(* Properties of the Remote Prediction Client (specification ClientSpec) *)

ClientDone(op) == hcall.call.op = op /\ hcall.call.pc = "done"

\* C4: whatever fetch does (rejection, any HTTP status, a body that is not
\* JSON), a call of checkModelStatus, predictPriceFromAPI or checkAPIHealth
\* completes with a returned value, never with an error.
C4_NoErrorEscapes ==
    /\ hcall.call.pc \in {"idle", "fetch", "json", "errjson", "done"}
    /\ hcall.call.pc = "done" => hcall.call.completion.kind = "return"

C4_Witness ==
    /\ ClientDone("predictPriceFromAPI")
    /\ ResponseOk(hcall.response)
    /\ hcall.body = Json(Null)
    /\ hcall.call.completion.kind = "return"

\* C5: checkModelStatus returns exactly {trained: false, modelPath: null} when
\* fetch rejects, when the HTTP status is not a success and when the body is
\* not JSON; otherwise it returns the parsed body.
C5_StatusSentinelOnFailure ==
    ClientDone("checkModelStatus") =>
        IF \/ hcall.response.rejected
           \/ ~(hcall.response.status \in 200..299)
           \/ ~hcall.body.parses
        THEN hcall.call.completion =
                 Return(Obj([trained |-> Bool(FALSE), modelPath |-> Null]))
        ELSE hcall.call.completion = Return(hcall.body.json)

C5_Witness ==
    /\ ClientDone("checkModelStatus")
    /\ ~hcall.response.rejected
    /\ hcall.response.status = 500
    /\ hcall.call.completion.value.f.trained = Bool(FALSE)

\* C6: predictPriceFromAPI returns null for every response whose HTTP status
\* is outside the success range, whether or not the error body parses.
C6_NullOnHttpError ==
    ( /\ ClientDone("predictPriceFromAPI")
      /\ ~hcall.response.rejected
      /\ ~(hcall.response.status \in 200..299) ) =>
        hcall.call.completion = Return(Null)

C6_Witness ==
    /\ ClientDone("predictPriceFromAPI")
    /\ hcall.response = Response(500)
    /\ hcall.body = Json(Obj([error |-> Str("Model not trained")]))
    /\ hcall.call.completion = Return(Null)

-----------------------------------------------------------------------------
(* Properties of predictPrice (specification EstimateSpec) *)

\* The closed form of the specification, in the model's units
ClosedSubtotal(d) ==
    150000 + 100 * d.squareFootage + 15000 * d.bedrooms + 10000 * d.bathrooms +
    500 * (d.yearBuilt - 1950) + 1000 * d.lotSize + 10000 * d.garage +
    (IF d.basement THEN 20000 ELSE 0) + (IF d.centralAir THEN 15000 ELSE 0) +
    10000 * (d.kitchenQuality - 1)

\* The multiplier table of the specification, in hundredths: 1.0 for any key
\* that is not in the table
ClosedFactor(key) ==
    CASE key \in {"Downtown", "Highland Park"} -> 120
      [] key = "Riverside" -> 115
      [] key \in {"Suburban Heights", "Cedar Ridge"} -> 110
      [] key \in {"North Hills", "Brookside"} -> 105
      [] key = "West End" -> 95
      [] key = "Maplewood" -> 90
      [] OTHER -> 100

\* round(x / den), halves up
RoundRatio(x, den) == (2 * x + den) \div (2 * den)

\* The draw that makes marketVariation 1.0: Math.random() = 1/2
PinnedDraw == HalfRandomSteps

\* C7: with marketVariation pinned to 1.0, predictPrice returns
\* round(subtotal * neighborhoodFactor), the factor being the table entry or
\* 1.0 for any key not in the table; the example record gives exactly 585000.
C7_ClosedForm ==
    \A n \in DOMAIN est.calls :
        est.calls[n].k = PinnedDraw =>
            /\ est.calls[n].value =
                   Num(RoundRatio(ClosedSubtotal(est.data) * ClosedFactor(est.data.neighborhood), 100))
            /\ est.data = ExampleRecord => est.calls[n].value = Num(585000)

\* A valid HouseRecord: the form's ranges, any neighborhood key
ValidHouseRecord(d) ==
    /\ d.squareFootage > 0
    /\ d.bedrooms >= 1
    /\ d.bathrooms > 0
    /\ d.yearBuilt >= 1900
    /\ d.lotSize > 0
    /\ d.garage >= 0
    /\ d.kitchenQuality \in 1..5

\* C8: for every valid HouseRecord and every market variation, predictPrice
\* returns a non-negative integer.
C8_NonNegativeInteger ==
    \A n \in DOMAIN est.calls :
        ValidHouseRecord(est.data) =>
            /\ est.calls[n].value.t = "number"
            /\ est.calls[n].value.n >= 0

\* C9: for a record with positive subtotal, every value predictPrice returns
\* lies between round(0.95 * subtotal * factor) and round(1.05 * subtotal * factor).
C9_WithinMarketBand ==
    \A n \in DOMAIN est.calls :
        ClosedSubtotal(est.data) > 0 =>
            LET x == ClosedSubtotal(est.data) * ClosedFactor(est.data.neighborhood)
                lo == (x \div 10000) * 95 + RoundRatio((x % 10000) * 95, 10000)
                hi == (x \div 10000) * 105 + RoundRatio((x % 10000) * 105, 10000)
            IN  /\ est.calls[n].value.t = "number"
                /\ lo <= est.calls[n].value.n
                /\ est.calls[n].value.n <= hi

-----------------------------------------------------------------------------
(* Properties of the whole application (specification AppSpec) *)

\* C10: a submission issues at most one POST to /api/predict, and exactly one
\* when its remote attempt failed and it fell back to the local estimate; the
\* mount's checkModelStatus call and every checkAPIHealth call issue exactly
\* one request.
C10_SingleAttempt ==
    /\ \A i \in DOMAIN subs :
          /\ Posts(subs[i]) <= 1
          /\ Len(subs[i].call.requests) = Posts(subs[i])
          /\ subs[i].call.op = "predictPriceFromAPI" => Posts(subs[i]) = 1
          /\ (Done(subs[i]) /\ subs[i].call.completion = Return(Null)) =>
                 /\ Posts(subs[i]) = 1
                 /\ subs[i].source = "fallback"
    /\ Len(statusCall.requests) = 1
    /\ hcall.call.op = "checkAPIHealth" => Len(hcall.call.requests) = 1
    /\ hcall.sent = hcall.calls

C10_Witness ==
    /\ \E i \in DOMAIN subs :
          /\ Done(subs[i])
          /\ subs[i].call.completion = Return(Null)
          /\ subs[i].source = "fallback"
          /\ Posts(subs[i]) = 1
    /\ statusCall.pc = "done"
    /\ ClientDone("checkAPIHealth")
    /\ hcall.calls = 2

-----------------------------------------------------------------------------
(* Resubmission and the mount-time status (specification Spec) *)

\* The submissions suspended in their remote call
InFlight == {i \in DOMAIN subs : subs[i].pc = "remote"}

\* The form submits one more record
SubmitAny ==
    \/ \E d \in SubmitRecords, k \in SubmitDraws : SubmitLocal(d, k)
    \/ \E d \in SubmitRecords : SubmitRemote(d)

\* The price written by the submission that completed last
LastCompletedPrice ==
    LET last == CHOOSE i \in DOMAIN subs :
                    /\ Done(subs[i])
                    /\ \A j \in DOMAIN subs : subs[j].completed <= subs[i].completed
    IN  subs[last].price

\* C11 as stated: a submission in flight does not block another one from
\* starting, and once all submissions have completed the displayed price is
\* the one written by the submission that completed last.
C11_ResubmissionNotBlocked ==
    /\ (InFlight # {} /\ Len(subs) < MaxSubmissions /\ ~isLoadingNeighborhoods) =>
           ENABLED SubmitAny
    /\ (InFlight = {} /\ subs # <<>>) => predictedPrice = LastCompletedPrice

\* C11 as amended: at most one submission is in flight; while it is, the
\* form cannot submit; submissions complete in the order they started, each
\* writes its own price, and with none in flight the displayed price is the
\* one written by the submission that completed last.
C11_OneSubmissionAtATime ==
    /\ Cardinality(InFlight) <= 1
    /\ InFlight # {} =>
           /\ InFlight = {Len(subs)}
           /\ isLoading
           /\ predictedPrice = Null
           /\ ~ENABLED SubmitAny
    /\ \A i \in DOMAIN subs : Done(subs[i]) => subs[i].completed = i
    /\ (InFlight = {} /\ subs # <<>>) =>
           /\ ~isLoading
           /\ predictedPrice = LastCompletedPrice
           /\ predictedPrice = subs[Len(subs)].price

C11_Witness ==
    /\ InFlight # {}
    /\ Len(subs) < MaxSubmissions
    /\ ~isLoadingNeighborhoods
    /\ ~ENABLED SubmitAny

\* C12: checkModelStatus is requested exactly once, by the mount effect. A
\* submission issues a remote request only if that call had completed with
\* trained = true when it was submitted; a submission made while the call was
\* pending (isAvailable = null), or after it gave trained = false or failed,
\* uses the local estimate, whatever the status call or the backend says later.
C12_StatusQueriedOnce ==
    /\ Len(statusCall.requests) = 1
    /\ statusCall.pc # "done" => modelStatus.isAvailable = Null /\ modelStatus.isLoading
    /\ ( /\ statusCall.pc = "done"
         /\ statusCall.completion = Return(Obj([trained |-> Bool(FALSE), modelPath |-> Null])) ) =>
           modelStatus.isAvailable = Bool(FALSE)
    /\ \A i \in DOMAIN subs :
          /\ subs[i].call.op # "none" =>
                 /\ subs[i].available = Bool(TRUE)
                 /\ statusCall.pc = "done"
                 /\ statusCall.completion.kind = "return"
                 /\ GetProp(statusCall.completion.value, "trained") = Return(Bool(TRUE))
          /\ subs[i].available # Bool(TRUE) =>
                 /\ Posts(subs[i]) = 0
                 /\ Done(subs[i])
                 /\ subs[i].localCalls = 1
                 /\ subs[i].price = subs[i].local
                 /\ subs[i].source = "fallback"

C12_Witness ==
    \E i \in DOMAIN subs :
        /\ Done(subs[i])
        /\ subs[i].available = Null
        /\ subs[i].source = "fallback"
        /\ Posts(subs[i]) = 0
        /\ modelStatus.isAvailable = Bool(TRUE)
        /\ Len(statusCall.requests) = 1

====
